---------------------------- MODULE Spec2Model ----------------------------
(***************************************************************************)
(* Model of rawgl's main.cpp: command-line parsing, resolution of the      *)
(* rendering backend, and the construct / wire / run / teardown sequence   *)
(* of main().  C strings are sequences of one-character strings, so that  *)
(* sscanf, atoi, strchr and strcmp work on them character by character.    *)
(***************************************************************************)
EXTENDS Integers, Sequences, FiniteSets, TLC

VARIABLES
    pc,              \* position of main()
    USE_GL,          \* build: is USE_GL defined (main.cpp:66)
    argsLeft,        \* options of argv that getopt_long has not returned yet
    c,               \* last value returned by getopt_long
    optarg,          \* getopt's optarg
    dataPath, part, lang, graphicsType, dm, scaler, defaultGraphics,
    is1991,          \* Graphics::_is1991
    use565,          \* Graphics::_use565
    useEGA,          \* Video::_useEGA
    e,               \* the Engine object
    graphics,        \* the Graphics pointer returned by createGraphics
    stub,            \* the SystemStub object
    trace            \* the calls main() has made to its collaborators, in order

vars == <<pc, USE_GL, argsLeft, c, optarg, dataPath, part, lang, graphicsType,
          dm, scaler, defaultGraphics, is1991, use565, useEGA, e, graphics,
          stub, trace>>

(***************************************************************************)
(* Bounds of the model.                                                    *)
(***************************************************************************)
MaxArgs == 3
MaxRuns == 2

(***************************************************************************)
(* Program constants and tables.                                           *)
(***************************************************************************)
DEFAULT_WINDOW_W == 640
DEFAULT_WINDOW_H == 400
DEFAULT_PART == 16001
NameSize == 32

NULL == "NULL"

\* a null char pointer, among strings that are sequences of characters
NULLSTR == <<"NULL">>

LANGUAGES ==
    << [name |-> <<"f", "r">>, lang |-> "LANG_FR"],
       [name |-> <<"u", "s">>, lang |-> "LANG_US"],
       [name |-> <<"d", "e">>, lang |-> "LANG_DE"],
       [name |-> <<"e", "s">>, lang |-> "LANG_ES"],
       [name |-> <<"i", "t">>, lang |-> "LANG_IT"] >>

GRAPHICS ==
    << [name |-> <<"o", "r", "i", "g", "i", "n", "a", "l">>,
        type |-> "GRAPHICS_ORIGINAL"],
       [name |-> <<"s", "o", "f", "t", "w", "a", "r", "e">>,
        type |-> "GRAPHICS_SOFTWARE"],
       [name |-> <<"g", "l">>, type |-> "GRAPHICS_GL"] >>

\* Resource::DataType: the three editions main.cpp names, and two of the
\* editions that take the default branch of getGraphicsType.
DataTypes == {"DT_15TH_EDITION", "DT_20TH_EDITION", "DT_3DO", "DT_DOS", "DT_AMIGA"}

(***************************************************************************)
(* C library functions used by main.cpp, over character sequences.         *)
(***************************************************************************)
Digits == <<"0", "1", "2", "3", "4", "5", "6", "7", "8", "9">>

isdigit(ch) == \E i \in 1..10 : Digits[i] = ch

DigitVal(ch) == (CHOOSE i \in 1..10 : Digits[i] = ch) - 1

isspace(ch) == ch \in {" ", "\t", "\n"}

RECURSIVE SkipSpace(_, _)
SkipSpace(s, i) ==
    IF i <= Len(s) /\ isspace(s[i]) THEN SkipSpace(s, i + 1) ELSE i

RECURSIVE ScanDigits(_, _, _)
\* the decimal digits of s from position i on, accumulated onto acc
ScanDigits(s, i, acc) ==
    IF i <= Len(s) /\ isdigit(s[i])
    THEN ScanDigits(s, i + 1, acc * 10 + DigitVal(s[i]))
    ELSE [val |-> acc, next |-> i]

\* one %d conversion (also strtol base 10) starting at position i: skips
\* white space, takes an optional sign and then at least one digit
ScanInt(s, i) ==
    LET j    == SkipSpace(s, i)
        sign == j <= Len(s) /\ s[j] \in {"-", "+"}
        k    == IF sign THEN j + 1 ELSE j
        d    == ScanDigits(s, k, 0)
    IN  IF k <= Len(s) /\ isdigit(s[k])
        THEN [ok |-> TRUE,
              val |-> IF sign /\ s[j] = "-" THEN 0 - d.val ELSE d.val,
              next |-> d.next]
        ELSE [ok |-> FALSE, val |-> 0, next |-> i]

atoi(s) == ScanInt(s, 1).val

\* index of the first occurrence of ch in s, 0 when there is none
strchr(s, ch) ==
    IF \E i \in 1..Len(s) : s[i] = ch
    THEN CHOOSE i \in 1..Len(s) : s[i] = ch /\ \A j \in 1..(i - 1) : s[j] # ch
    ELSE 0

\* strcmp(a, b) is 0 exactly when the two strings are equal; main.cpp only
\* tests the result against 0
strcmp(a, b) == IF a = b THEN 0 ELSE 1

\* sscanf(s, "%dx%d", &w, &h): each conversion stores as soon as it matches
sscanf_dxd(s, w, h) ==
    LET a == ScanInt(s, 1)
    IN  IF ~a.ok THEN [width |-> w, height |-> h, n |-> 0]
        ELSE IF ~(a.next <= Len(s) /\ s[a.next] = "x")
             THEN [width |-> a.val, height |-> h, n |-> 1]
             ELSE LET b == ScanInt(s, a.next + 1)
                  IN  IF ~b.ok THEN [width |-> a.val, height |-> h, n |-> 1]
                      ELSE [width |-> a.val, height |-> b.val, n |-> 2]


Min(a, b) == IF a < b THEN a ELSE b

(***************************************************************************)
(* Pure functions of main.cpp.                                             *)
(***************************************************************************)
\* getGraphicsType with the console port left to the default branch
getGraphicsType_3DOIsLegacy(type) ==
    IF type \in {"DT_15TH_EDITION", "DT_20TH_EDITION"}
    THEN "GRAPHICS_GL"
    ELSE "GRAPHICS_ORIGINAL"

getGraphicsType(type) ==
    IF type \in {"DT_15TH_EDITION", "DT_20TH_EDITION", "DT_3DO"}
    THEN "GRAPHICS_GL"
    ELSE "GRAPHICS_ORIGINAL"

\* parseScaler with the name copied whether or not an '@' was found
parseScaler_CopiesBareName(name, s) ==
    LET sep == strchr(name, "@")
    IN  IF sep # 0
        THEN [name   |-> SubSeq(name, 1, Min(sep - 1, NameSize - 1)),
              factor |-> atoi(SubSeq(name, sep + 1, Len(name)))]
        ELSE [name |-> SubSeq(name, 1, Min(Len(name), NameSize - 1)),
              factor |-> s.factor]

\* the Scaler that parseScaler(name, &s) leaves in s
parseScaler(name, s) ==
    LET sep == strchr(name, "@")
    IN  IF sep # 0
        THEN [name   |-> SubSeq(name, 1, Min(sep - 1, NameSize - 1)),
              factor |-> atoi(SubSeq(name, sep + 1, Len(name)))]
        ELSE s

\* the loop of cases 'l' and 'r' over a name table: the index of the first
\* entry whose name is arg, 0 when the loop reaches the end of the table
Lookup(table, arg) ==
    IF \E i \in 1..Len(table) : strcmp(arg, table[i].name) = 0
    THEN CHOOSE i \in 1..Len(table) :
            /\ strcmp(arg, table[i].name) = 0
            /\ \A j \in 1..(i - 1) : strcmp(arg, table[j].name) # 0
    ELSE 0

(***************************************************************************)
(* The option arguments the model draws from.                              *)
(***************************************************************************)
LongName == [i \in 1..NameSize |-> "h"]

DataPathArgs == {<<"d", "a", "t", "a">>}
LanguageArgs == {<<"u", "s">>, <<"x", "x">>}
PartArgs     == {<<"2">>, <<"z">>}
RenderArgs   == {<<"o", "r", "i", "g", "i", "n", "a", "l">>,
                 <<"s", "o", "f", "t", "w", "a", "r", "e">>,
                 <<"g", "l">>,
                 <<"v", "u", "l", "k", "a", "n">>}
WindowArgs   == {<<"8", "0", "0", "x", "6", "0", "0">>,
                 <<"8", "0", "0">>,
                 <<"x", "6", "0", "0">>,
                 <<"3", "2", "x", "q">>}
ScalerArgs   == {<<"h", "q", "@", "3">>,
                 <<"h", "q">>,
                 <<"p", "@", "x">>,
                 LongName \o <<"@", "2">>}

\* what one call of getopt_long can return while options remain
Options ==
    [c : {"d"}, optarg : DataPathArgs] \cup
    [c : {"l"}, optarg : LanguageArgs] \cup
    [c : {"p"}, optarg : PartArgs] \cup
    [c : {"r"}, optarg : RenderArgs] \cup
    [c : {"w"}, optarg : WindowArgs] \cup
    [c : {"s"}, optarg : ScalerArgs] \cup
    [c : {"f", "a", "e", "h", "?"}, optarg : {NULLSTR}]

DefaultScaler == [name |-> <<>>, factor |-> 1]

NoDm == [mode |-> NULL, width |-> 0, height |-> 0, opengl |-> FALSE]

NoSetup == [called |-> FALSE, lang |-> NULL, graphicsType |-> NULL,
            scalerName |-> <<>>, scalerFactor |-> 0]

(***************************************************************************)
(* main(), lines 105-117: the locals and the static flags.                 *)
(***************************************************************************)
Init ==
    /\ pc = "argc"
    /\ USE_GL \in BOOLEAN
    /\ argsLeft \in 0..MaxArgs
    /\ c = NULL
    /\ optarg = NULLSTR
    /\ dataPath = NULLSTR
    /\ part = DEFAULT_PART
    /\ lang = "LANG_FR"
    /\ graphicsType = "GRAPHICS_GL"
    /\ dm = [mode |-> "WINDOWED", width |-> DEFAULT_WINDOW_W,
             height |-> DEFAULT_WINDOW_H, opengl |-> TRUE]
    /\ scaler = DefaultScaler
    /\ defaultGraphics = TRUE
    /\ is1991 = FALSE
    /\ use565 = FALSE
    /\ useEGA = FALSE
    /\ e = [state |-> "none", dataPath |-> NULLSTR, part |-> 0, dataType |-> NULL,
            stub |-> NULL, graphics |-> NULL, setup |-> NoSetup,
            runs |-> 0, finished |-> 0]
    /\ graphics = "undef"
    /\ stub = [state |-> "none", title |-> NULL, dm |-> NoDm, quit |-> FALSE]
    /\ trace = <<>>

\* lines 118-124: a single bare argument naming a directory is the data path
CheckArgc ==
    /\ pc = "argc"
    /\ \E isDir \in BOOLEAN :
          dataPath' = IF argsLeft = 0 /\ isDir THEN <<"d", "i", "r">> ELSE dataPath
    /\ pc' = "getopt"
    /\ UNCHANGED <<USE_GL, argsLeft, c, optarg, part, lang, graphicsType, dm,
                   scaler, defaultGraphics, is1991, use565, useEGA, e,
                   graphics, stub, trace>>

\* line 140: getopt_long returns the next option
GetoptLong ==
    /\ pc = "getopt"
    /\ argsLeft > 0
    /\ \E o \in Options : c' = o.c /\ optarg' = o.optarg
    /\ argsLeft' = argsLeft - 1
    /\ pc' = "switch"
    /\ UNCHANGED <<USE_GL, dataPath, part, lang, graphicsType, dm, scaler,
                   defaultGraphics, is1991, use565, useEGA, e, graphics, stub,
                   trace>>

\* lines 140-143: getopt_long returns -1 and the loop ends
GetoptEnd ==
    /\ pc = "getopt"
    /\ argsLeft = 0
    /\ c' = "-1"
    /\ optarg' = NULLSTR
    /\ pc' = "engine"
    /\ UNCHANGED <<USE_GL, argsLeft, dataPath, part, lang, graphicsType, dm,
                   scaler, defaultGraphics, is1991, use565, useEGA, e,
                   graphics, stub, trace>>

\* lines 145-147
OptDatapath ==
    /\ pc = "switch" /\ c = "d"
    /\ dataPath' = optarg
    /\ pc' = "getopt"
    /\ UNCHANGED <<USE_GL, argsLeft, c, optarg, part, lang, graphicsType, dm,
                   scaler, defaultGraphics, is1991, use565, useEGA, e,
                   graphics, stub, trace>>

\* lines 148-155
OptLanguage ==
    /\ pc = "switch" /\ c = "l"
    /\ LET i == Lookup(LANGUAGES, optarg)
       IN  lang' = IF i # 0 THEN LANGUAGES[i].lang ELSE lang
    /\ pc' = "getopt"
    /\ UNCHANGED <<USE_GL, argsLeft, c, optarg, dataPath, part, graphicsType,
                   dm, scaler, defaultGraphics, is1991, use565, useEGA, e,
                   graphics, stub, trace>>

\* lines 156-158
OptPart ==
    /\ pc = "switch" /\ c = "p"
    /\ part' = atoi(optarg)
    /\ pc' = "getopt"
    /\ UNCHANGED <<USE_GL, argsLeft, c, optarg, dataPath, lang, graphicsType,
                   dm, scaler, defaultGraphics, is1991, use565, useEGA, e,
                   graphics, stub, trace>>

\* case 'r' without the update of dm.opengl
OptRender_KeepsGLSurface ==
    /\ pc = "switch" /\ c = "r"
    /\ LET i == Lookup(GRAPHICS, optarg)
       IN  IF i # 0
           THEN /\ graphicsType' = GRAPHICS[i].type
                /\ defaultGraphics' = FALSE
           ELSE UNCHANGED <<graphicsType, defaultGraphics>>
    /\ pc' = "getopt"
    /\ UNCHANGED <<USE_GL, argsLeft, c, optarg, dataPath, part, lang, dm,
                   scaler, is1991, use565, useEGA, e, graphics, stub, trace>>

\* lines 159-168
OptRender ==
    /\ pc = "switch" /\ c = "r"
    /\ LET i == Lookup(GRAPHICS, optarg)
       IN  IF i # 0
           THEN /\ graphicsType' = GRAPHICS[i].type
                /\ dm' = [dm EXCEPT !.opengl = (GRAPHICS[i].type = "GRAPHICS_GL")]
                /\ defaultGraphics' = FALSE
           ELSE UNCHANGED <<graphicsType, dm, defaultGraphics>>
    /\ pc' = "getopt"
    /\ UNCHANGED <<USE_GL, argsLeft, c, optarg, dataPath, part, lang, scaler,
                   is1991, use565, useEGA, e, graphics, stub, trace>>

\* lines 169-171
OptWindow ==
    /\ pc = "switch" /\ c = "w"
    /\ LET r == sscanf_dxd(optarg, dm.width, dm.height)
       IN  dm' = [dm EXCEPT !.width = r.width, !.height = r.height]
    /\ pc' = "getopt"
    /\ UNCHANGED <<USE_GL, argsLeft, c, optarg, dataPath, part, lang,
                   graphicsType, scaler, defaultGraphics, is1991, use565,
                   useEGA, e, graphics, stub, trace>>

\* lines 172-174
OptFullscreen ==
    /\ pc = "switch" /\ c = "f"
    /\ dm' = [dm EXCEPT !.mode = "FULLSCREEN"]
    /\ pc' = "getopt"
    /\ UNCHANGED <<USE_GL, argsLeft, c, optarg, dataPath, part, lang,
                   graphicsType, scaler, defaultGraphics, is1991, use565,
                   useEGA, e, graphics, stub, trace>>

\* lines 175-177
OptFullscreenAr ==
    /\ pc = "switch" /\ c = "a"
    /\ dm' = [dm EXCEPT !.mode = "FULLSCREEN_AR"]
    /\ pc' = "getopt"
    /\ UNCHANGED <<USE_GL, argsLeft, c, optarg, dataPath, part, lang,
                   graphicsType, scaler, defaultGraphics, is1991, use565,
                   useEGA, e, graphics, stub, trace>>

\* lines 178-180
OptScaler ==
    /\ pc = "switch" /\ c = "s"
    /\ scaler' = parseScaler(optarg, scaler)
    /\ pc' = "getopt"
    /\ UNCHANGED <<USE_GL, argsLeft, c, optarg, dataPath, part, lang,
                   graphicsType, dm, defaultGraphics, is1991, use565, useEGA,
                   e, graphics, stub, trace>>

\* lines 181-183
OptEga ==
    /\ pc = "switch" /\ c = "e"
    /\ useEGA' = TRUE
    /\ pc' = "getopt"
    /\ UNCHANGED <<USE_GL, argsLeft, c, optarg, dataPath, part, lang,
                   graphicsType, dm, scaler, defaultGraphics, is1991, use565,
                   e, graphics, stub, trace>>

\* lines 184-188: --help or an option getopt_long does not know
OptHelp ==
    /\ pc = "switch" /\ c \in {"h", "?"}
    /\ pc' = "usage"
    /\ UNCHANGED <<USE_GL, argsLeft, c, optarg, dataPath, part, lang,
                   graphicsType, dm, scaler, defaultGraphics, is1991, use565,
                   useEGA, e, graphics, stub, trace>>


(***************************************************************************)
(* main(), lines 191-214: construction, resolution, wiring, loop, teardown *)
(***************************************************************************)

\* line 192: new Engine(dataPath, part); the engine detects the edition
NewEngine ==
    /\ pc = "engine"
    /\ \E dt \in DataTypes :
          e' = [e EXCEPT !.state = "alive", !.dataPath = dataPath,
                         !.part = part, !.dataType = dt]
    /\ trace' = Append(trace, "Engine")
    /\ pc' = "resolveDefault"
    /\ UNCHANGED <<USE_GL, argsLeft, c, optarg, dataPath, part, lang,
                   graphicsType, dm, scaler, defaultGraphics, is1991, use565,
                   useEGA, graphics, stub>>

\* lines 193-197
ResolveDefault ==
    /\ pc = "resolveDefault"
    /\ IF defaultGraphics
       THEN /\ graphicsType' = getGraphicsType(e.dataType)
            /\ dm' = [dm EXCEPT !.opengl =
                                  (getGraphicsType(e.dataType) = "GRAPHICS_GL")]
       ELSE UNCHANGED <<graphicsType, dm>>
    /\ trace' = Append(trace, "resolveDefault")
    /\ pc' = "resolve3DO"
    /\ UNCHANGED <<USE_GL, argsLeft, c, optarg, dataPath, part, lang, scaler,
                   defaultGraphics, is1991, use565, useEGA, e, graphics, stub>>

\* the console-port override applied whatever the backend is
Resolve3DO_OverridesGL ==
    /\ pc = "resolve3DO"
    /\ IF e.dataType = "DT_3DO"
       THEN /\ graphicsType' = "GRAPHICS_SOFTWARE"
            /\ use565' = TRUE
       ELSE UNCHANGED <<graphicsType, use565>>
    /\ trace' = Append(trace, "resolve3DO")
    /\ pc' = "createGraphics"
    /\ UNCHANGED <<USE_GL, argsLeft, c, optarg, dataPath, part, lang, dm,
                   scaler, defaultGraphics, is1991, useEGA, e, graphics, stub>>

\* the console-port override setting the colour flag and keeping the backend
Resolve3DO_KeepsBackend ==
    /\ pc = "resolve3DO"
    /\ IF graphicsType # "GRAPHICS_GL" /\ e.dataType = "DT_3DO"
       THEN /\ use565' = TRUE
            /\ UNCHANGED graphicsType
       ELSE UNCHANGED <<graphicsType, use565>>
    /\ trace' = Append(trace, "resolve3DO")
    /\ pc' = "createGraphics"
    /\ UNCHANGED <<USE_GL, argsLeft, c, optarg, dataPath, part, lang, dm,
                   scaler, defaultGraphics, is1991, useEGA, e, graphics, stub>>

\* lines 198-201
Resolve3DO ==
    /\ pc = "resolve3DO"
    /\ IF graphicsType # "GRAPHICS_GL" /\ e.dataType = "DT_3DO"
       THEN /\ graphicsType' = "GRAPHICS_SOFTWARE"
            /\ use565' = TRUE
       ELSE UNCHANGED <<graphicsType, use565>>
    /\ trace' = Append(trace, "resolve3DO")
    /\ pc' = "createGraphics"
    /\ UNCHANGED <<USE_GL, argsLeft, c, optarg, dataPath, part, lang, dm,
                   scaler, defaultGraphics, is1991, useEGA, e, graphics, stub>>

\* createGraphics with the flag set under the software case as well
CreateGraphicsEnter_FlagOnSoftware ==
    /\ pc = "createGraphics"
    /\ is1991' = IF graphicsType \in {"GRAPHICS_ORIGINAL", "GRAPHICS_SOFTWARE"}
                 THEN TRUE ELSE is1991
    /\ trace' = Append(trace, "createGraphics")
    /\ pc' = "createGraphicsReturn"
    /\ UNCHANGED <<USE_GL, argsLeft, c, optarg, dataPath, part, lang,
                   graphicsType, dm, scaler, defaultGraphics, use565, useEGA,
                   e, graphics, stub>>

\* lines 202, 56-60: createGraphics(graphicsType) enters its switch
CreateGraphicsEnter ==
    /\ pc = "createGraphics"
    /\ is1991' = IF graphicsType = "GRAPHICS_ORIGINAL" THEN TRUE ELSE is1991
    /\ trace' = Append(trace, "createGraphics")
    /\ pc' = "createGraphicsReturn"
    /\ UNCHANGED <<USE_GL, argsLeft, c, optarg, dataPath, part, lang,
                   graphicsType, dm, scaler, defaultGraphics, use565, useEGA,
                   e, graphics, stub>>

\* lines 61-70, 202: the backend instance, or 0, is returned and stored
CreateGraphicsReturn ==
    /\ pc = "createGraphicsReturn"
    /\ graphics' = IF graphicsType \in {"GRAPHICS_ORIGINAL", "GRAPHICS_SOFTWARE"}
                   THEN "GraphicsSoft"
                   ELSE IF graphicsType = "GRAPHICS_GL" /\ USE_GL
                        THEN "GraphicsGL"
                        ELSE NULL
    /\ pc' = "stubCreate"
    /\ UNCHANGED <<USE_GL, argsLeft, c, optarg, dataPath, part, lang,
                   graphicsType, dm, scaler, defaultGraphics, is1991, use565,
                   useEGA, e, stub, trace>>

\* line 203
StubCreate ==
    /\ pc = "stubCreate"
    /\ stub' = [stub EXCEPT !.state = "created"]
    /\ trace' = Append(trace, "SystemStub_SDL_create")
    /\ pc' = "stubInit"
    /\ UNCHANGED <<USE_GL, argsLeft, c, optarg, dataPath, part, lang,
                   graphicsType, dm, scaler, defaultGraphics, is1991, use565,
                   useEGA, e, graphics>>

\* line 204: stub->init(e->getGameTitle(lang), &dm)
StubInit ==
    /\ pc = "stubInit"
    /\ stub' = [stub EXCEPT !.state = "inited", !.title = lang, !.dm = dm]
    /\ trace' = Append(trace, "init")
    /\ pc' = "setSystemStub"
    /\ UNCHANGED <<USE_GL, argsLeft, c, optarg, dataPath, part, lang,
                   graphicsType, dm, scaler, defaultGraphics, is1991, use565,
                   useEGA, e, graphics>>

\* line 205: e->setSystemStub(stub, graphics)
SetSystemStub ==
    /\ pc = "setSystemStub"
    /\ e' = [e EXCEPT !.stub = "stub", !.graphics = graphics]
    /\ trace' = Append(trace, "setSystemStub")
    /\ pc' = "setup"
    /\ UNCHANGED <<USE_GL, argsLeft, c, optarg, dataPath, part, lang,
                   graphicsType, dm, scaler, defaultGraphics, is1991, use565,
                   useEGA, graphics, stub>>

\* line 206: e->setup(lang, graphicsType, scaler.name, scaler.factor).  With
\* a null Graphics pointer the engine's use of it is undefined: the call
\* either goes on or ends the process.
Setup ==
    /\ pc = "setup"
    /\ e' = [e EXCEPT !.setup = [called |-> TRUE, lang |-> lang,
                                 graphicsType |-> graphicsType,
                                 scalerName |-> scaler.name,
                                 scalerFactor |-> scaler.factor]]
    /\ trace' = Append(trace, "setup")
    /\ \E crash \in (IF graphics = NULL THEN BOOLEAN ELSE {FALSE}) :
          pc' = IF crash THEN "crashed" ELSE "loop"
    /\ UNCHANGED <<USE_GL, argsLeft, c, optarg, dataPath, part, lang,
                   graphicsType, dm, scaler, defaultGraphics, is1991, use565,
                   useEGA, graphics, stub>>

\* the loop calling e->run() without looking at the quit flag
Run_IgnoresQuit ==
    /\ pc = "loop"
    /\ e.runs < MaxRuns
    /\ e' = [e EXCEPT !.runs = e.runs + 1]
    /\ \E q \in BOOLEAN : stub' = [stub EXCEPT !.quit = q]
    /\ trace' = Append(trace, "run")
    /\ \E crash \in (IF graphics = NULL THEN BOOLEAN ELSE {FALSE}) :
          pc' = IF crash THEN "crashed" ELSE "loop"
    /\ UNCHANGED <<USE_GL, argsLeft, c, optarg, dataPath, part, lang,
                   graphicsType, dm, scaler, defaultGraphics, is1991, use565,
                   useEGA, graphics>>

\* lines 207-208: the quit flag is polled false and e->run() is called; the
\* platform layer may set the flag during the call
Run ==
    /\ pc = "loop"
    /\ ~stub.quit
    /\ e.runs < MaxRuns
    /\ e' = [e EXCEPT !.runs = e.runs + 1]
    /\ \E q \in BOOLEAN : stub' = [stub EXCEPT !.quit = q]
    /\ trace' = Append(trace, "run")
    /\ \E crash \in (IF graphics = NULL THEN BOOLEAN ELSE {FALSE}) :
          pc' = IF crash THEN "crashed" ELSE "loop"
    /\ UNCHANGED <<USE_GL, argsLeft, c, optarg, dataPath, part, lang,
                   graphicsType, dm, scaler, defaultGraphics, is1991, use565,
                   useEGA, graphics>>

\* lines 207, 210: the quit flag is polled true; e->finish()
Finish ==
    /\ pc = "loop"
    /\ stub.quit
    /\ e' = [e EXCEPT !.finished = e.finished + 1]
    /\ trace' = Append(trace, "finish")
    /\ pc' = "deleteEngine"
    /\ UNCHANGED <<USE_GL, argsLeft, c, optarg, dataPath, part, lang,
                   graphicsType, dm, scaler, defaultGraphics, is1991, use565,
                   useEGA, graphics, stub>>

\* teardown with the platform layer released first and the engine last
DeleteEngine_AfterStub ==
    /\ pc = "deleteEngine"
    /\ stub' = [stub EXCEPT !.state = "deleted"]
    /\ trace' = Append(trace, "delete stub")
    /\ pc' = "stubFini"
    /\ UNCHANGED <<USE_GL, argsLeft, c, optarg, dataPath, part, lang,
                   graphicsType, dm, scaler, defaultGraphics, is1991, use565,
                   useEGA, e, graphics>>

\* line 211: delete e
DeleteEngine ==
    /\ pc = "deleteEngine"
    /\ e' = [e EXCEPT !.state = "deleted"]
    /\ trace' = Append(trace, "delete e")
    /\ pc' = "stubFini"
    /\ UNCHANGED <<USE_GL, argsLeft, c, optarg, dataPath, part, lang,
                   graphicsType, dm, scaler, defaultGraphics, is1991, use565,
                   useEGA, graphics, stub>>

\* line 212: stub->fini()
StubFini ==
    /\ pc = "stubFini"
    /\ stub' = [stub EXCEPT !.state = "finished"]
    /\ trace' = Append(trace, "fini")
    /\ pc' = "deleteStub"
    /\ UNCHANGED <<USE_GL, argsLeft, c, optarg, dataPath, part, lang,
                   graphicsType, dm, scaler, defaultGraphics, is1991, use565,
                   useEGA, e, graphics>>

\* lines 213-214: delete stub; return 0
DeleteStub ==
    /\ pc = "deleteStub"
    /\ stub' = [stub EXCEPT !.state = "deleted"]
    /\ trace' = Append(trace, "delete stub")
    /\ pc' = "done"
    /\ UNCHANGED <<USE_GL, argsLeft, c, optarg, dataPath, part, lang,
                   graphicsType, dm, scaler, defaultGraphics, is1991, use565,
                   useEGA, e, graphics>>

Next ==
    \/ CheckArgc \/ GetoptLong \/ GetoptEnd
    \/ OptDatapath \/ OptLanguage \/ OptPart \/ OptRender \/ OptWindow
    \/ OptFullscreen \/ OptFullscreenAr \/ OptScaler \/ OptEga \/ OptHelp
    \/ NewEngine \/ ResolveDefault \/ Resolve3DO
    \/ CreateGraphicsEnter \/ CreateGraphicsReturn
    \/ StubCreate \/ StubInit \/ SetSystemStub \/ Setup
    \/ Run \/ Finish \/ DeleteEngine \/ StubFini \/ DeleteStub

Spec == Init /\ [][Next]_vars


(***************************************************************************)
(* Vocabulary of the properties.                                           *)
(***************************************************************************)
Done(step) == \E i \in 1..Len(trace) : trace[i] = step

Count(step) == Cardinality({i \in 1..Len(trace) : trace[i] = step})

IsPrefix(s, t) == Len(s) <= Len(t) /\ SubSeq(t, 1, Len(s)) = s

ModernEditions == {"DT_15TH_EDITION", "DT_20TH_EDITION", "DT_3DO"}

RecognisedRenderers ==
    {<<"o", "r", "i", "g", "i", "n", "a", "l">>,
     <<"s", "o", "f", "t", "w", "a", "r", "e">>,
     <<"g", "l">>}

\* the steps of main() from engine construction to finish, with n frames
Lifecycle(n) ==
    <<"Engine", "resolveDefault", "resolve3DO", "createGraphics",
      "SystemStub_SDL_create", "init", "setSystemStub", "setup">>
    \o [i \in 1..n |-> "run"] \o <<"finish">>

\* trace without what follows its first "finish"
UpToFinish ==
    IF Done("finish")
    THEN SubSeq(trace, 1, CHOOSE i \in 1..Len(trace) :
                             /\ trace[i] = "finish"
                             /\ \A j \in 1..(i - 1) : trace[j] # "finish")
    ELSE trace

(***************************************************************************)
(* C1.  As stated: the platform subsystem (stub fini and release) is       *)
(* released before the engine, so that the engine is never destroyed while *)
(* the platform subsystem is still alive.  Stated on the runs whose        *)
(* backend instance exists, where nothing undefined precedes the teardown. *)
(***************************************************************************)
C1_PlatformReleasedBeforeEngine ==
    (e.state = "deleted" /\ graphics # NULL) => stub.state = "deleted"

\* C1, amended: on every run that reaches finish, the engine is released
\* first (after its finish) and the platform subsystem is finalised and
\* released after it; the platform subsystem is never finalised or released
\* while the engine is still alive.
C1_EngineReleasedBeforePlatform ==
    /\ stub.state \in {"finished", "deleted"} =>
          e.state = "deleted" /\ e.finished = 1
    /\ e.state = "deleted" => e.finished = 1
    /\ pc = "done" => e.state = "deleted" /\ stub.state = "deleted"

C1_Witness ==
    pc = "done" /\ e.state = "deleted" /\ stub.state = "deleted"

(***************************************************************************)
(* C2.  As stated: with an explicit request for the GL backend and the     *)
(* console-port (3DO) edition, the override fires: the resolved backend is *)
(* SOFTWARE and use16BitColor565 is true.                                  *)
(***************************************************************************)
C2_OverrideFiresOnExplicitGL ==
    [][(pc = "resolve3DO" /\ ~defaultGraphics /\ graphicsType = "GRAPHICS_GL"
        /\ e.dataType = "DT_3DO")
       => (graphicsType' = "GRAPHICS_SOFTWARE" /\ use565')]_vars

\* C2, amended: with an explicit request for the GL backend and the
\* console-port edition, the override does not fire: the resolved backend
\* stays GL, use16BitColor565 stays false and the GL surface stays requested.
C2_ExplicitGLKeptOn3DO ==
    [][(pc = "resolve3DO" /\ ~defaultGraphics /\ graphicsType = "GRAPHICS_GL"
        /\ e.dataType = "DT_3DO")
       => (graphicsType' = "GRAPHICS_GL" /\ ~use565' /\ dm'.opengl)]_vars

C2_Witness ==
    /\ pc = "createGraphics" /\ ~defaultGraphics /\ e.dataType = "DT_3DO"
    /\ graphicsType = "GRAPHICS_GL" /\ ~use565

(***************************************************************************)
(* C3.  When backend construction yields no instance (GL resolved, GL not  *)
(* compiled in), main never initialises the platform subsystem, never      *)
(* hands the absent backend to the engine, never calls setup and never     *)
(* runs the loop.                                                          *)
(***************************************************************************)
C3_AbsentBackendIsFatal ==
    graphics = NULL =>
        /\ stub.state \notin {"inited", "finished", "deleted"}
        /\ e.stub = NULL
        /\ ~e.setup.called
        /\ e.runs = 0

(***************************************************************************)
(* C4.  A --window value that does not match both integers of WxH leaves   *)
(* both width and height as they were before the option was processed.     *)
(***************************************************************************)
C4_GeometryAllOrNothing ==
    [][(pc = "switch" /\ c = "w"
        /\ sscanf_dxd(optarg, dm.width, dm.height).n # 2)
       => (dm'.width = dm.width /\ dm'.height = dm.height)]_vars

(***************************************************************************)
(* C5.  dm.opengl equals (graphicsType = GRAPHICS_GL) when the platform    *)
(* subsystem is initialised with the display mode and ever after, where    *)
(* graphicsType is the backend handed to createGraphics and to setup.      *)
(***************************************************************************)
C5_GLSurfaceFollowsBackend ==
    /\ dm.opengl = (graphicsType = "GRAPHICS_GL")
    /\ stub.state \in {"inited", "finished", "deleted"} =>
          /\ stub.dm = dm
          /\ stub.dm.opengl = (graphicsType = "GRAPHICS_GL")
    /\ graphics = "GraphicsGL" => dm.opengl
    /\ graphics = "GraphicsSoft" => ~dm.opengl
    /\ e.setup.called =>
          /\ e.setup.graphicsType = graphicsType
          /\ stub.dm.opengl = (e.setup.graphicsType = "GRAPHICS_GL")

C5_Witness ==
    /\ stub.state = "inited" /\ ~stub.dm.opengl /\ e.setup.called
    /\ e.dataType = "DT_3DO" /\ ~defaultGraphics /\ use565

(***************************************************************************)
(* C6.  The stages occur in order, each once: the engine is constructed    *)
(* from the data path and start position, then the backend is resolved     *)
(* from the edition the engine reports, then the backend is constructed    *)
(* and the platform subsystem initialised, then wiring and setup; run is   *)
(* called only after setup and only when the polled quit flag is false;    *)
(* finish is called once, only when the poll sees quit, and no run follows.*)
(***************************************************************************)
C6_LifecycleOrder ==
    /\ [](/\ \E n \in 0..MaxRuns : IsPrefix(UpToFinish, Lifecycle(n))
          /\ Count("finish") <= 1 /\ Count("finish") = e.finished
          /\ Count("run") = e.runs
          /\ Done("finish") => trace[Len(UpToFinish)] = "finish"
                               /\ \A i \in (Len(UpToFinish) + 1)..Len(trace) :
                                     trace[i] \in {"delete e", "fini", "delete stub"}
          /\ e.state = "none" => trace = <<>>
          /\ e.state # "none" => e.dataPath = dataPath /\ e.part = part
          /\ Done("resolve3DO") => e.dataType \in DataTypes
          /\ pc \in {"deleteEngine", "stubFini", "deleteStub", "done"} =>
                e.finished = 1
          /\ e.setup.called =>
                /\ graphics # "undef" /\ e.graphics = graphics
                /\ stub.state # "none" /\ e.stub = "stub")
    /\ [][/\ e'.runs # e.runs =>
                e.setup.called /\ ~stub.quit /\ e.finished = 0
          /\ e'.finished # e.finished => stub.quit /\ e.finished = 0
          /\ graphicsType' # graphicsType /\ pc # "switch" =>
                e.state = "alive" /\ graphics = "undef"]_vars

C6_Witness ==
    pc = "done" /\ e.runs = 2 /\ e.finished = 1

(***************************************************************************)
(* C7.  As stated, its first half: after a --scaler value with no '@' is   *)
(* processed the scaler spec is the default (empty name, factor 1),        *)
(* whatever the value holds.                                               *)
(***************************************************************************)
C7_BareScalerGivesDefault ==
    [][(pc = "switch" /\ c = "s" /\ strchr(optarg, "@") = 0)
       => scaler' = DefaultScaler]_vars

\* C7, amended: a --scaler value with no '@' leaves the scaler spec as it was
\* before the option (the default only if no earlier value with '@' was
\* processed); a value name@factor sets the name to the first 31 characters
\* of the text before the first '@' and the factor to atoi of the text after
\* it; nothing else writes the scaler spec, and setup receives it.
C7_BareScalerKeepsPrior ==
    /\ [][(pc = "switch" /\ c = "s")
          => LET sep == strchr(optarg, "@")
                 nm  == SubSeq(optarg, 1, sep - 1)
             IN  scaler' =
                   IF sep = 0
                   THEN scaler
                   ELSE [name   |-> IF Len(nm) > 31 THEN SubSeq(nm, 1, 31)
                                    ELSE nm,
                         factor |-> atoi(SubSeq(optarg, sep + 1,
                                                Len(optarg)))]]_vars
    /\ [][scaler' # scaler =>
            pc = "switch" /\ c = "s" /\ strchr(optarg, "@") # 0]_vars
    /\ [](e.setup.called =>
            /\ e.setup.scalerName = scaler.name
            /\ e.setup.scalerFactor = scaler.factor)

C7_Witness ==
    /\ pc = "getopt" /\ c = "s" /\ strchr(optarg, "@") = 0
    /\ scaler = [name |-> <<"h", "q">>, factor |-> 3]

(***************************************************************************)
(* C8.  From the moment the backend instance is created, Graphics::_is1991 *)
(* is true if the backend handed to createGraphics is ORIGINAL and false   *)
(* if it is SOFTWARE or GL; the flag is written before the instance exists *)
(* and never afterwards.                                                   *)
(***************************************************************************)
C8_LegacyFlagFollowsBackend ==
    /\ [](/\ graphics # "undef" =>
                is1991 = (graphicsType = "GRAPHICS_ORIGINAL")
          /\ pc = "createGraphicsReturn" =>
                /\ graphics = "undef"
                /\ is1991 = (graphicsType = "GRAPHICS_ORIGINAL")
          /\ e.setup.called =>
                is1991 = (e.setup.graphicsType = "GRAPHICS_ORIGINAL"))
    /\ [][is1991' # is1991 => graphics = "undef" /\ graphics' = "undef"]_vars

C8_Witness ==
    pc = "done" /\ graphics = "GraphicsSoft" /\ is1991

(***************************************************************************)
(* C9.  With no recognised --render option, the resolved backend is GL,    *)
(* with the GL surface, for the 15th, 20th and 3DO editions, and ORIGINAL  *)
(* for every other edition; once a recognised renderer was named, the      *)
(* edition-based default is not applied.                                   *)
(***************************************************************************)
C9_DefaultBackendRule ==
    /\ []((Done("resolve3DO") /\ defaultGraphics) =>
            IF e.dataType \in ModernEditions
            THEN graphicsType = "GRAPHICS_GL" /\ dm.opengl
            ELSE graphicsType = "GRAPHICS_ORIGINAL" /\ ~dm.opengl)
    /\ [][/\ (pc = "switch" /\ c = "r") =>
                defaultGraphics' =
                   (defaultGraphics /\ optarg \notin RecognisedRenderers)
          /\ defaultGraphics' # defaultGraphics => pc = "switch" /\ c = "r"
          /\ (pc = "resolveDefault" /\ ~defaultGraphics) =>
                graphicsType' = graphicsType /\ dm' = dm]_vars

C9_Witness ==
    /\ pc = "createGraphics" /\ defaultGraphics /\ e.dataType = "DT_3DO"
    /\ graphicsType = "GRAPHICS_GL" /\ dm.opengl

(***************************************************************************)
(* C10.  Graphics::_use565 is true at backend construction exactly when    *)
(* the edition is 3DO and the backend after the default rule or the user's *)
(* choice is not GL; the resolved backend is then SOFTWARE, the run goes   *)
(* on to backend construction, and for other editions the flag is false.   *)
(***************************************************************************)
C10_ConsolePortOverride ==
    /\ [][pc = "resolve3DO" =>
            /\ use565' = (e.dataType = "DT_3DO" /\ graphicsType # "GRAPHICS_GL")
            /\ use565' => graphicsType' = "GRAPHICS_SOFTWARE"
            /\ ~use565' => graphicsType' = graphicsType
            /\ pc' = "createGraphics"]_vars
    /\ [](/\ use565 => /\ Done("resolve3DO")
                       /\ e.dataType = "DT_3DO"
                       /\ graphicsType = "GRAPHICS_SOFTWARE"
          /\ (Done("resolve3DO") /\ e.dataType = "DT_3DO"
              /\ graphicsType # "GRAPHICS_GL") => use565)

C10_Witness ==
    /\ pc = "createGraphicsReturn" /\ use565 /\ e.dataType = "DT_3DO"
    /\ graphicsType = "GRAPHICS_SOFTWARE" /\ graphics = "undef"

=============================================================================
